---- MODULE Spec2Model ----
(***************************************************************************)
(* Model of EabcMabcA.py: the SMA crossover alert run.                     *)
(*                                                                         *)
(* The script runs top to bottom once: it reads the credentials and the    *)
(* configuration rows, then for every row fetches the candles, adds the    *)
(* SMA columns, detects crossovers on the last two bars, and finally hands *)
(* the accumulated notifications to the Telegram helper.                   *)
(*                                                                         *)
(* Prices are integers; an SMA value is the exact rational num/den, or NaN *)
(* (def = FALSE).  Every comparison with NaN is false, as in Python.       *)
(* A bar keeps the columns the script reads: Timestamp, Open and Close.    *)
(*                                                                         *)
(* Line 46 is read as the top-level assignment its text is.  The log queue *)
(* all_logs and its own Telegram helper touch none of the state below and  *)
(* are left out; the chunks of a posted batch are not told apart.          *)
(***************************************************************************)
EXTENDS Integers, Sequences, FiniteSets, TLC

VARIABLES
    pc,            \* position of the script
    BOT_TOKEN,     \* TRUE iff TG_BOT_TOKEN is set and non-empty
    CHAT_ID,       \* TRUE iff TG_CHAT_ID is set and non-empty
    access_token,  \* TRUE iff FYERS_TOKEN is set and non-empty
    configs_str,   \* TRADE_CONFIGS: [text: "absent" | "empty" | "blank" | "csv", rows]
    configs,       \* the parsed configuration rows
    i,             \* index of the row the for loop is at (1-based)
    periods,       \* the period list of the current row
    df,            \* the data frame of the current row, or None
    all_alerts,    \* the notification batch
    alert_cache,   \* the dedup cache: a set of key strings
    sent,          \* batches handed to safe_send_telegram_bulk_alerts, in order
    posted,        \* batches the helper actually posted to Telegram
    exc            \* the exception in flight or re-raised, "none" if none

vars == <<pc, BOT_TOKEN, CHAT_ID, access_token, configs_str, configs, i,
          periods, df, all_alerts, alert_cache, sent, posted, exc>>

(***************************************************************************)
(* Bounds of the model.                                                    *)
(***************************************************************************)
MaxRows   == 2   \* configuration rows in a run (Spec)
MaxBars   == 2   \* bars of an enumerated candle series (SpecDetect)
MaxPrice  == 3   \* enumerated prices are 1..MaxPrice (SpecDetect)
MaxPeriod == 3   \* enumerated SMA periods are 1..MaxPeriod (SpecDetect)

None == [bars |-> <<>>, sma |-> <<>>, none |-> TRUE]
NaN  == [def |-> FALSE, num |-> 0, den |-> 1]

Lower(a, b)  == IF a < b THEN a ELSE b
Higher(a, b) == IF a < b THEN b ELSE a

(***************************************************************************)
(* Candle series.                                                          *)
(***************************************************************************)
Bar(t, o, c) == [Timestamp |-> t, Open |-> o, Close |-> c]

\* All series of exactly n bars, timestamps 1..n ascending, prices in 1..maxPrice.
RECURSIVE SeriesOfLen(_, _)
SeriesOfLen(n, maxPrice) ==
    IF n = 0 THEN {<<>>}
    ELSE {Append(s, Bar(n, o, c)) :
              s \in SeriesOfLen(n - 1, maxPrice),
              o \in 1..maxPrice, c \in 1..maxPrice}

SeriesUpTo(maxLen, maxPrice) ==
    UNION {SeriesOfLen(n, maxPrice) : n \in 0..maxLen}

\* The two scenarios of the design's test list, with a leading bar that makes
\* SMA_3 at the last bar equal to 105 and to 100.
GapOnlySeries  == <<Bar(1, 103, 103), Bar(2, 100, 102), Bar(3, 108, 110)>>
IntrabarSeries == <<Bar(1, 101, 101), Bar(2, 100, 98), Bar(3, 99, 101)>>

DetectSeries == SeriesUpTo(MaxBars, MaxPrice) \cup {GapOnlySeries, IntrabarSeries}

\* Series a multi-row run draws from: no bar, one bar, no crossing, a bullish
\* gap crossing of SMA_2, a bearish crossing of SMA_2 inside both bars.
RunSeries ==
    { <<>>,
      <<Bar(1, 1, 1)>>,
      <<Bar(1, 1, 1), Bar(2, 1, 1)>>,
      <<Bar(1, 1, 1), Bar(2, 3, 3)>>,
      <<Bar(1, 1, 3), Bar(2, 3, 1)>> }

(***************************************************************************)
(* Configuration rows.  The sma_p cell is an integer, or a string given as *)
(* the list of its ";"-separated tokens; the token "x" is not a number.    *)
(***************************************************************************)
IntCell(p)  == [int |-> TRUE,  num |-> p, tokens |-> <<>>]
StrCell(ts) == [int |-> FALSE, num |-> 0, tokens |-> ts]

Row(s, tf, cell) == [symbol |-> s, tf |-> tf, sma_p |-> cell, count |-> 2000]

RunRows ==
    { Row("A", 5,  IntCell(2)),
      Row("A", 5,  StrCell(<<"2", "2">>)),
      Row("A", 5,  StrCell(<<"2", "3">>)),
      Row("A", 15, IntCell(2)),
      Row("B", 5,  IntCell(2)),
      Row("B", 5,  StrCell(<<"2", "x">>)) }

DetectRows ==
    {Row("A", 5, IntCell(p)) : p \in 1..MaxPeriod}
    \cup {Row("A", 5, StrCell(<<ToString(p), ToString(q)>>)) :
              p \in 1..MaxPeriod, q \in 1..MaxPeriod}

\* All sequences over S of length at most n.
RECURSIVE SeqsUpTo(_, _)
SeqsUpTo(S, n) ==
    IF n = 0 THEN {<<>>}
    ELSE LET shorter == SeqsUpTo(S, n - 1)
         IN  shorter \cup {Append(q, x) : q \in {r \in shorter : Len(r) = n - 1}, x \in S}

(***************************************************************************)
(* fetch_candles: the provider's answer and the frame built from it.       *)
(***************************************************************************)
Reverse(s) == [k \in 1..Len(s) |-> s[Len(s) + 1 - k]]

\* A provider answer: s = "ok" with the candles in the provider's order, or
\* another status.
Responses(series) ==
    {[s |-> "ok", candles |-> c] : c \in series \cup {Reverse(x) : x \in series}}
    \cup {[s |-> "error", candles |-> <<>>]}

\* df.sort_values("Timestamp"): insertion sort on the Timestamp column.
RECURSIVE InsertBar(_, _)
InsertBar(sorted, b) ==
    IF sorted = <<>> THEN <<b>>
    ELSE IF b.Timestamp < Head(sorted).Timestamp THEN <<b>> \o sorted
    ELSE <<Head(sorted)>> \o InsertBar(Tail(sorted), b)

RECURSIVE sort_values(_)
sort_values(candles) ==
    IF candles = <<>> THEN <<>>
    ELSE InsertBar(sort_values(SubSeq(candles, 1, Len(candles) - 1)),
                   candles[Len(candles)])

\* The frame fetch_candles returns for an "ok" answer: the sorted bars and no
\* SMA column yet.
Frame(candles) == [bars |-> sort_values(candles), sma |-> <<>>, none |-> FALSE]

(***************************************************************************)
(* add_sma: df["Close"].rolling(window=p).mean() for every p of periods.   *)
(***************************************************************************)
\* The window that never drops a close: an expanding sum.
RECURSIVE RollNoRemove(_, _, _)
RollNoRemove(closes, p, k) ==
    IF k = 0 THEN [sum |-> 0, nobs |-> 0]
    ELSE LET before == RollNoRemove(closes, p, k - 1)
         IN  [sum |-> before.sum + closes[k], nobs |-> Lower(before.nobs + 1, p)]

\* The rolling window after bar k: every close is added as it enters and
\* removed as it leaves the window of p bars; nobs counts the closes in it.
RECURSIVE Roll(_, _, _)
Roll(closes, p, k) ==
    IF k = 0 THEN [sum |-> 0, nobs |-> 0]
    ELSE LET before == Roll(closes, p, k - 1)
             added  == [sum  |-> before.sum + closes[k],
                        nobs |-> before.nobs + 1]
         IN  IF k > p
             THEN [sum |-> added.sum - closes[k - p], nobs |-> added.nobs - 1]
             ELSE added

\* The rolling mean with min_periods = 1: defined from the first bar on.
RollingMeanMinPeriodsOne(closes, p) ==
    [k \in 1..Len(closes) |->
        LET w == Roll(closes, p, k)
        IN  [def |-> TRUE, num |-> w.sum, den |-> w.nobs]]

\* The mean of the window, NaN until the window holds p closes (min_periods
\* defaults to the window size).
RollingMean(closes, p) ==
    [k \in 1..Len(closes) |->
        LET w == Roll(closes, p, k)
        IN  IF w.nobs >= p
            THEN [def |-> TRUE, num |-> w.sum, den |-> w.nobs]
            ELSE NaN]

Closes(bars) == [k \in 1..Len(bars) |-> bars[k].Close]

\* The SMA columns are a function from period to column; a repeated period
\* recomputes and overwrites its column.
RECURSIVE add_sma(_, _)
add_sma(frame, ps) ==
    IF ps = <<>> THEN frame
    ELSE LET p      == Head(ps)
             column == RollingMean(Closes(frame.bars), p)
             cols   == [q \in (DOMAIN frame.sma) \cup {p} |->
                           IF q = p THEN column ELSE frame.sma[q]]
         IN  add_sma([frame EXCEPT !.sma = cols], Tail(ps))

(***************************************************************************)
(* Comparisons of a price with an SMA value; false when the value is NaN.  *)
(***************************************************************************)
\* Inclusive comparison.
BelowOrEqual(x, v) == v.def /\ x * v.den <= v.num

Below(x, v) == v.def /\ x * v.den < v.num   \* x < sma
Above(x, v) == v.def /\ x * v.den > v.num   \* x > sma

\* (a < sma < b) or (a > sma > b)
Crossed(a, v, b) == (Below(a, v) /\ Above(b, v)) \/ (Above(a, v) /\ Below(b, v))

(***************************************************************************)
(* Notifications.                                                          *)
(***************************************************************************)
warn(alerts, msg)  == Append(alerts, [kind |-> "warning", msg |-> msg])
error(alerts, msg) == Append(alerts, [kind |-> "error", msg |-> msg])

Key(symbol, tf, p) == symbol \o "_" \o ToString(tf) \o "_SMA" \o ToString(p)

\* The alert that keeps the gap annotation on Bearish crossings only.
CrossAlertGapOnlyBearish(symbol, tf, p, trend, gap, last, sma) ==
    [kind |-> "cross", symbol |-> symbol, tf |-> tf, p |-> p, trend |-> trend,
     gap |-> gap /\ trend = "Bearish", close |-> last.Close, sma |-> sma,
     ts |-> last.Timestamp]

CrossAlert(symbol, tf, p, trend, gap, last, sma) ==
    [kind |-> "cross", symbol |-> symbol, tf |-> tf, p |-> p, trend |-> trend,
     gap |-> gap, close |-> last.Close, sma |-> sma, ts |-> last.Timestamp]

(***************************************************************************)
(* detect_sma_cross                                                        *)
(***************************************************************************)
\* A cache that is never consulted.
InCacheNever(key, cache) == FALSE

\* Line 206: key in alert_cache.
InCache(key, cache) == key \in cache

\* Direction with an inclusive comparison.
TrendInclusive(last, sma) ==
    IF sma.def /\ last.Close * sma.den >= sma.num THEN "Bullish" ELSE "Bearish"

\* Line 214.
Trend(last, sma) == IF Above(last.Close, sma) THEN "Bullish" ELSE "Bearish"

\* The for loop over the periods from position k on; st is
\* [alerts, cache], the two globals the loop updates.
RECURSIVE DetectLoop(_, _, _, _, _, _)
DetectLoop(frame, ps, k, symbol, tf, st) ==
    IF k > Len(ps) THEN st
    ELSE LET last == frame.bars[Len(frame.bars)]
             prev == frame.bars[Len(frame.bars) - 1]
             p    == ps[k]
             sma  == frame.sma[p][Len(frame.bars)]
             key  == Key(symbol, tf, p)
             crossed_prev == Crossed(prev.Open, sma, prev.Close)
             crossed_last == Crossed(last.Open, sma, last.Close)
             crossed_gap  == Crossed(prev.Close, sma, last.Open)
         IN  IF InCache(key, st.cache)
             THEN DetectLoop(frame, ps, k + 1, symbol, tf, st)
             ELSE IF crossed_prev \/ crossed_last \/ crossed_gap
             THEN DetectLoop(frame, ps, k + 1, symbol, tf,
                     [alerts |-> Append(st.alerts,
                                   CrossAlert(symbol, tf, p, Trend(last, sma),
                                              crossed_gap, last, sma)),
                      cache  |-> st.cache \cup {key}])
             ELSE DetectLoop(frame, ps, k + 1, symbol, tf, st)

detect_sma_cross(frame, ps, symbol, tf, st) ==
    IF frame.none \/ Len(frame.bars) < 2
    THEN [st EXCEPT !.alerts = warn(st.alerts, "Not enough data to check crossovers")]
    ELSE DetectLoop(frame, ps, 1, symbol, tf, st)

(***************************************************************************)
(* The period list of a row: [int(sma_p)] for an integer cell, otherwise   *)
(* int() of every ";"-separated token, which raises on a non-number.       *)
(***************************************************************************)
IsNumber(tok) == \E n \in 0..MaxPeriod : ToString(n) = tok
int(tok)      == CHOOSE n \in 0..MaxPeriod : ToString(n) = tok

ParseRaises(cell) == ~cell.int /\ \E k \in 1..Len(cell.tokens) : ~IsNumber(cell.tokens[k])

ParsePeriods(cell) ==
    IF cell.int THEN <<cell.num>>
    ELSE [k \in 1..Len(cell.tokens) |-> int(cell.tokens[k])]

(***************************************************************************)
(* safe_send_telegram_bulk_alerts: returns at once without credentials,    *)
(* otherwise posts the joined batch chunk by chunk.                        *)
(***************************************************************************)
safe_send_telegram_bulk_alerts(messages) ==
    /\ sent' = Append(sent, messages)
    /\ posted' = IF ~BOT_TOKEN \/ ~CHAT_ID THEN posted ELSE Append(posted, messages)

(***************************************************************************)
(* Initial states.                                                         *)
(***************************************************************************)
Csv(rows) == [text |-> "csv", rows |-> rows]
NoCsv(t)  == [text |-> t, rows |-> <<>>]

InitWith(envs, tradeConfigs) ==
    /\ pc = "telegram"
    /\ BOT_TOKEN \in envs
    /\ CHAT_ID \in envs
    /\ access_token \in envs
    /\ configs_str \in tradeConfigs
    /\ configs = <<>>
    /\ i = 0
    /\ periods = <<>>
    /\ df = None
    /\ all_alerts = <<>>
    /\ alert_cache = {}
    /\ sent = <<>>
    /\ posted = <<>>
    /\ exc = "none"

\* A run over at most MaxRows rows, every environment variable set or not.
Init ==
    InitWith(BOOLEAN, {NoCsv("absent"), NoCsv("empty"), NoCsv("blank")}
                      \cup {Csv(rows) : rows \in SeqsUpTo(RunRows, MaxRows)})

\* A run over one row with every environment variable set.
InitDetect ==
    InitWith({TRUE}, {Csv(<<r>>) : r \in DetectRows})

(***************************************************************************)
(* The script, statement by statement.                                     *)
(***************************************************************************)
\* Lines 35-39: missing Telegram credentials are logged, nothing else.
LoadTelegramCredentials ==
    /\ pc = "telegram"
    /\ pc' = "fyers"
    /\ UNCHANGED <<BOT_TOKEN, CHAT_ID, access_token, configs_str, configs, i,
                   periods, df, all_alerts, alert_cache, sent, posted, exc>>

\* Lines 131-134: no FYERS_TOKEN: error() and ValueError at module level.
FyersTokenMissing ==
    /\ pc = "fyers"
    /\ ~access_token
    /\ all_alerts' = error(all_alerts, "FYERS_TOKEN not set in secrets!")
    /\ exc' = "ValueError"
    /\ pc' = "aborted"
    /\ UNCHANGED <<BOT_TOKEN, CHAT_ID, access_token, configs_str, configs, i,
                   periods, df, alert_cache, sent, posted>>

\* The script going on whether or not FYERS_TOKEN is set.
FyersTokenUnchecked ==
    /\ pc = "fyers"
    /\ pc' = "configs"
    /\ UNCHANGED <<BOT_TOKEN, CHAT_ID, access_token, configs_str, configs, i,
                   periods, df, all_alerts, alert_cache, sent, posted, exc>>

\* Lines 136-138.
FyersTokenLoaded ==
    /\ pc = "fyers"
    /\ access_token
    /\ pc' = "configs"
    /\ UNCHANGED <<BOT_TOKEN, CHAT_ID, access_token, configs_str, configs, i,
                   periods, df, all_alerts, alert_cache, sent, posted, exc>>

\* Lines 143-146: TRADE_CONFIGS absent or the empty string.
ConfigsNotSet ==
    /\ pc = "configs"
    /\ configs_str.text \in {"absent", "empty"}
    /\ all_alerts' = error(all_alerts, "TRADE_CONFIGS variable not set in GitHub Actions!")
    /\ exc' = "ValueError"
    /\ pc' = "aborted"
    /\ UNCHANGED <<BOT_TOKEN, CHAT_ID, access_token, configs_str, configs, i,
                   periods, df, alert_cache, sent, posted>>

\* Lines 148-152: read_csv finds no columns (EmptyDataError).
ConfigsEmptyCsv ==
    /\ pc = "configs"
    /\ configs_str.text = "blank"
    /\ all_alerts' = error(all_alerts, "TRADE_CONFIGS provided but CSV is empty!")
    /\ exc' = "ValueError"
    /\ pc' = "aborted"
    /\ UNCHANGED <<BOT_TOKEN, CHAT_ID, access_token, configs_str, configs, i,
                   periods, df, alert_cache, sent, posted>>

\* Lines 149-156.
ConfigsLoaded ==
    /\ pc = "configs"
    /\ configs_str.text = "csv"
    /\ configs' = configs_str.rows
    /\ i' = 1
    /\ pc' = "loop"
    /\ UNCHANGED <<BOT_TOKEN, CHAT_ID, access_token, configs_str,
                   periods, df, all_alerts, alert_cache, sent, posted, exc>>

\* Line 232: the for loop takes the next row.
ForNextRow ==
    /\ pc = "loop"
    /\ i <= Len(configs)
    /\ pc' = "fetch"
    /\ UNCHANGED <<BOT_TOKEN, CHAT_ID, access_token, configs_str, configs, i,
                   periods, df, all_alerts, alert_cache, sent, posted, exc>>

\* The loop leaving one row early.
ForExhaustedEarly ==
    /\ pc = "loop"
    /\ i >= Len(configs)
    /\ pc' = "send"
    /\ UNCHANGED <<BOT_TOKEN, CHAT_ID, access_token, configs_str, configs, i,
                   periods, df, all_alerts, alert_cache, sent, posted, exc>>

\* Line 232: the rows are exhausted.
ForExhausted ==
    /\ pc = "loop"
    /\ i > Len(configs)
    /\ pc' = "send"
    /\ UNCHANGED <<BOT_TOKEN, CHAT_ID, access_token, configs_str, configs, i,
                   periods, df, all_alerts, alert_cache, sent, posted, exc>>

\* Lines 234, 161-182: the provider answers "ok".
FetchCandlesOk(series) ==
    /\ pc = "fetch"
    /\ \E resp \in Responses(series) :
          /\ resp.s = "ok"
          /\ df' = Frame(resp.candles)
    /\ pc' = "parse"
    /\ UNCHANGED <<BOT_TOKEN, CHAT_ID, access_token, configs_str, configs, i,
                   periods, all_alerts, alert_cache, sent, posted, exc>>

\* Lines 173-175, 235: another status: error(), None, and the row is over.
FetchCandlesNotOk(series) ==
    /\ pc = "fetch"
    /\ \E resp \in Responses(series) :
          /\ resp.s # "ok"
          /\ all_alerts' = error(all_alerts,
                "Error fetching " \o configs[i].symbol \o " " \o ToString(configs[i].tf) \o "m")
    /\ df' = None
    /\ i' = i + 1
    /\ pc' = "loop"
    /\ UNCHANGED <<BOT_TOKEN, CHAT_ID, access_token, configs_str, configs,
                   periods, alert_cache, sent, posted, exc>>

\* Line 172: fyers.history raises; fetch_candles has no handler.
FetchCandlesRaises ==
    /\ pc = "fetch"
    /\ exc' = "TransportError"
    /\ pc' = "except"
    /\ UNCHANGED <<BOT_TOKEN, CHAT_ID, access_token, configs_str, configs, i,
                   periods, df, all_alerts, alert_cache, sent, posted>>

\* Line 236.
ParsePeriodsOk ==
    /\ pc = "parse"
    /\ ~ParseRaises(configs[i].sma_p)
    /\ periods' = ParsePeriods(configs[i].sma_p)
    /\ pc' = "add_sma"
    /\ UNCHANGED <<BOT_TOKEN, CHAT_ID, access_token, configs_str, configs, i,
                   df, all_alerts, alert_cache, sent, posted, exc>>

\* Line 236: int() of a token that is no number raises ValueError.
ParsePeriodsRaises ==
    /\ pc = "parse"
    /\ ParseRaises(configs[i].sma_p)
    /\ exc' = "ValueError"
    /\ pc' = "except"
    /\ UNCHANGED <<BOT_TOKEN, CHAT_ID, access_token, configs_str, configs, i,
                   periods, df, all_alerts, alert_cache, sent, posted>>

\* Lines 237-238.
AddSma ==
    /\ pc = "add_sma"
    /\ df' = add_sma(df, periods)
    /\ pc' = "detect"
    /\ UNCHANGED <<BOT_TOKEN, CHAT_ID, access_token, configs_str, configs, i,
                   periods, all_alerts, alert_cache, sent, posted, exc>>

\* Line 239 and the end of the loop body.
DetectSmaCross ==
    /\ pc = "detect"
    /\ LET st == detect_sma_cross(df, periods, configs[i].symbol, configs[i].tf,
                                  [alerts |-> all_alerts, cache |-> alert_cache])
       IN  /\ all_alerts' = st.alerts
           /\ alert_cache' = st.cache
    /\ i' = i + 1
    /\ pc' = "loop"
    /\ UNCHANGED <<BOT_TOKEN, CHAT_ID, access_token, configs_str, configs,
                   periods, df, sent, posted, exc>>

\* Lines 245-246, 250.
SendAlerts ==
    /\ pc = "send"
    /\ all_alerts # <<>>
    /\ safe_send_telegram_bulk_alerts(all_alerts)
    /\ pc' = "done"
    /\ UNCHANGED <<BOT_TOKEN, CHAT_ID, access_token, configs_str, configs, i,
                   periods, df, all_alerts, alert_cache, exc>>

\* Lines 247-250.
NoAlerts ==
    /\ pc = "send"
    /\ all_alerts = <<>>
    /\ pc' = "done"
    /\ UNCHANGED <<BOT_TOKEN, CHAT_ID, access_token, configs_str, configs, i,
                   periods, df, all_alerts, alert_cache, sent, posted, exc>>

\* The handler sending the batch before it queues the error.
HandleExceptionSendFirst ==
    /\ pc = "except"
    /\ all_alerts' = error(all_alerts, "Unhandled exception: " \o exc)
    /\ IF all_alerts # <<>>
       THEN safe_send_telegram_bulk_alerts(all_alerts)
       ELSE UNCHANGED <<sent, posted>>
    /\ pc' = "failed"
    /\ UNCHANGED <<BOT_TOKEN, CHAT_ID, access_token, configs_str, configs, i,
                   periods, df, alert_cache, exc>>

\* Lines 252-256: the handler queues the error, sends the batch, re-raises.
HandleException ==
    /\ pc = "except"
    /\ all_alerts' = error(all_alerts, "Unhandled exception: " \o exc)
    /\ IF all_alerts' # <<>>
       THEN safe_send_telegram_bulk_alerts(all_alerts')
       ELSE UNCHANGED <<sent, posted>>
    /\ pc' = "failed"
    /\ UNCHANGED <<BOT_TOKEN, CHAT_ID, access_token, configs_str, configs, i,
                   periods, df, alert_cache, exc>>

NextWith(series) ==
    \/ LoadTelegramCredentials
    \/ FyersTokenMissing
    \/ FyersTokenLoaded
    \/ ConfigsNotSet
    \/ ConfigsEmptyCsv
    \/ ConfigsLoaded
    \/ ForNextRow
    \/ ForExhausted
    \/ FetchCandlesOk(series)
    \/ FetchCandlesNotOk(series)
    \/ FetchCandlesRaises
    \/ ParsePeriodsOk
    \/ ParsePeriodsRaises
    \/ AddSma
    \/ DetectSmaCross
    \/ SendAlerts
    \/ NoAlerts
    \/ HandleException

Next == NextWith(RunSeries)

\* The run over one row: the script's steps an environment with every
\* variable set and a well-formed row can take.
NextDetect ==
    \/ LoadTelegramCredentials
    \/ FyersTokenLoaded
    \/ ConfigsLoaded
    \/ ForNextRow
    \/ ForExhausted
    \/ FetchCandlesOk(DetectSeries)
    \/ FetchCandlesNotOk(DetectSeries)
    \/ FetchCandlesRaises
    \/ ParsePeriodsOk
    \/ AddSma
    \/ DetectSmaCross
    \/ SendAlerts
    \/ NoAlerts
    \/ HandleException

Spec == Init /\ [][Next]_vars

SpecDetect == InitDetect /\ [][NextDetect]_vars

(***************************************************************************)
(* Vocabulary of the properties.                                           *)
(***************************************************************************)
LastBar == df.bars[Len(df.bars)]
PrevBar == df.bars[Len(df.bars) - 1]
SmaAtLast(p) == df.sma[p][Len(df.bars)]

\* v is a number and lies strictly between a and b, in either order.
StrictlyBetween(v, a, b) ==
    /\ v.def
    /\ Lower(a, b) * v.den < v.num
    /\ v.num < Higher(a, b) * v.den

\* The indices of the notifications a step appends to the batch.
NewIndices == (Len(all_alerts) + 1)..Len(all_alerts')

\* The crossover alerts a step appends for period p.
NewCrossFor(p) ==
    {n \in NewIndices : all_alerts'[n].kind = "cross" /\ all_alerts'[n].p = p}

NewCross == {n \in NewIndices : all_alerts'[n].kind = "cross"}

PeriodSet == {periods[k] : k \in 1..Len(periods)}

CrossAlerts == {n \in 1..Len(all_alerts) : all_alerts[n].kind = "cross"}

RECURSIVE SumCloses(_, _, _)
SumCloses(bars, from, to) ==
    IF from > to THEN 0 ELSE bars[to].Close + SumCloses(bars, from, to - 1)

(***************************************************************************)
(* C1.  When detect_sma_cross runs on a frame of at least 2 bars, then for *)
(* every period p whose key is not in the cache it appends one crossover   *)
(* alert for p if SMA_p at the last bar lies strictly between prev.Open    *)
(* and prev.Close, or last.Open and last.Close, or prev.Close and          *)
(* last.Open, and none otherwise; in particular none when the SMA is above *)
(* all four prices or below all four.                                      *)
(***************************************************************************)
C1_CrossoverIffStrictlyBetween ==
    [][ (pc = "detect" /\ Len(df.bars) >= 2) =>
          \A p \in PeriodSet :
            LET v == SmaAtLast(p)
                four == {PrevBar.Open, PrevBar.Close, LastBar.Open, LastBar.Close}
                crossing ==
                    \/ StrictlyBetween(v, PrevBar.Open, PrevBar.Close)
                    \/ StrictlyBetween(v, LastBar.Open, LastBar.Close)
                    \/ StrictlyBetween(v, PrevBar.Close, LastBar.Open)
            IN  Key(configs[i].symbol, configs[i].tf, p) \notin alert_cache =>
                  /\ Cardinality(NewCrossFor(p)) = (IF crossing THEN 1 ELSE 0)
                  /\ (v.def /\ \A x \in four : x * v.den < v.num) => NewCrossFor(p) = {}
                  /\ (v.def /\ \A x \in four : x * v.den > v.num) => NewCrossFor(p) = {}
      ]_vars

\* After a call that alerted for one period and not for another, whose SMA
\* equals the last bar's close while its open differs.
C1_Witness ==
    /\ pc = "loop" /\ i = 2 /\ ~df.none /\ Len(df.bars) >= 2
    /\ \E n \in CrossAlerts : all_alerts[n].p \in PeriodSet
    /\ \E p \in PeriodSet :
          /\ SmaAtLast(p).def
          /\ SmaAtLast(p).num = LastBar.Close * SmaAtLast(p).den
          /\ LastBar.Open # LastBar.Close
          /\ \A n \in CrossAlerts : all_alerts[n].p # p

(***************************************************************************)
(* C3.  Every crossover alert detect_sma_cross appends is Bullish if       *)
(* last.Close is greater than the SMA at the last bar and Bearish          *)
(* otherwise, equality included, whichever test fired.                     *)
(***************************************************************************)
C3_DirectionFromLastClose ==
    [][ pc = "detect" =>
          \A n \in NewCross :
            LET a == all_alerts'[n]
                v == SmaAtLast(a.p)
            IN  a.trend = (IF v.def /\ LastBar.Close * v.den > v.num
                           THEN "Bullish" ELSE "Bearish")
      ]_vars

\* One call that produced a Bearish alert with last.Close equal to the SMA
\* and a Bullish alert.
C3_Witness ==
    /\ pc = "loop" /\ i = 2
    /\ \E n \in CrossAlerts :
          /\ all_alerts[n].trend = "Bearish"
          /\ all_alerts[n].close * all_alerts[n].sma.den = all_alerts[n].sma.num
    /\ \E n \in CrossAlerts : all_alerts[n].trend = "Bullish"

(***************************************************************************)
(* C4.  Every crossover alert detect_sma_cross appends carries the gap     *)
(* annotation iff the SMA at the last bar lies strictly between prev.Close *)
(* and last.Open.  prev = (100, 102), last = (108, 110), SMA = 105 gives   *)
(* one Bullish alert with it; prev = (100, 98), last = (99, 101),          *)
(* SMA = 100 gives a Bullish alert without it.                             *)
(***************************************************************************)
C4_GapIffBetweenPrevCloseAndLastOpen ==
    [][ pc = "detect" =>
          /\ \A n \in NewCross :
                all_alerts'[n].gap <=>
                    StrictlyBetween(SmaAtLast(all_alerts'[n].p), PrevBar.Close, LastBar.Open)
          /\ \A ex \in {[bars |-> GapOnlySeries, sma |-> 105, gap |-> TRUE],
                        [bars |-> IntrabarSeries, sma |-> 100, gap |-> FALSE]} :
                (/\ df.bars = ex.bars
                 /\ 3 \in PeriodSet
                 /\ Key(configs[i].symbol, configs[i].tf, 3) \notin alert_cache)
                => /\ SmaAtLast(3).def
                   /\ SmaAtLast(3).num = ex.sma * SmaAtLast(3).den
                   /\ Cardinality(NewCrossFor(3)) = 1
                   /\ \A n \in NewCrossFor(3) :
                         /\ all_alerts'[n].trend = "Bullish"
                         /\ all_alerts'[n].gap = ex.gap
      ]_vars

\* The gap-only scenario: one alert, Bullish, with the gap annotation.
C4_Witness ==
    /\ pc = "loop" /\ i = 2
    /\ df.bars = GapOnlySeries
    /\ periods = <<3>>
    /\ Len(all_alerts) = 1
    /\ all_alerts[1].kind = "cross"
    /\ all_alerts[1].gap
    /\ all_alerts[1].trend = "Bullish"

(***************************************************************************)
(* C5.  detect_sma_cross on a frame of fewer than 2 bars appends no        *)
(* crossover alert and adds no key; for a period longer than the frame it  *)
(* appends no alert and adds no key for that period.  Either way nothing   *)
(* is raised and the loop goes on to the next row.                         *)
(***************************************************************************)
C5_InsufficientDataIsNoOp ==
    [][ pc = "detect" =>
          /\ pc' = "loop" /\ exc' = "none" /\ i' = i + 1
          /\ Len(df.bars) < 2 => (NewCross = {} /\ alert_cache' = alert_cache)
          /\ \A p \in PeriodSet :
                Len(df.bars) < p =>
                    /\ NewCrossFor(p) = {}
                    /\ Key(configs[i].symbol, configs[i].tf, p) \in alert_cache'
                         => Key(configs[i].symbol, configs[i].tf, p) \in alert_cache
      ]_vars

\* A call on two bars for periods 3 and 2: nothing for SMA_3, and SMA_2,
\* the period after it, still alerted.
C5_Witness ==
    /\ pc = "loop" /\ i = 2
    /\ Len(df.bars) = 2
    /\ periods = <<3, 2>>
    /\ Len(all_alerts) = 1
    /\ all_alerts[1].kind = "cross"
    /\ all_alerts[1].p = 2
    /\ exc = "none"

(***************************************************************************)
(* C6.  add_sma leaves the bars as they are and gives every requested      *)
(* period P a column as long as the frame, undefined at the first P-1      *)
(* bars and from then on the mean of the P closes ending at that bar; the  *)
(* column of P is the one add_sma computes for P alone.                    *)
(***************************************************************************)
C6_RollingMean ==
    [][ pc = "add_sma" =>
          /\ df'.bars = df.bars
          /\ DOMAIN df'.sma = PeriodSet
          /\ \A p \in PeriodSet :
                /\ Len(df'.sma[p]) = Len(df.bars)
                /\ \A k \in 1..Len(df.bars) :
                      IF k < p
                      THEN ~df'.sma[p][k].def
                      ELSE /\ df'.sma[p][k].def
                           /\ df'.sma[p][k].den > 0
                           /\ df'.sma[p][k].num * p
                                = SumCloses(df.bars, k - p + 1, k) * df'.sma[p][k].den
                /\ df'.sma[p] = add_sma(df, <<p>>).sma[p]
      ]_vars

\* Two columns over three bars, the SMA_3 column defined at the last bar only.
C6_Witness ==
    /\ pc = "detect"
    /\ Len(df.bars) = 3
    /\ periods = <<2, 3>>
    /\ DOMAIN df.sma = {2, 3}
    /\ df.sma[3][3].def /\ ~df.sma[3][2].def
    /\ df.sma[2][3].def /\ ~df.sma[2][1].def

(***************************************************************************)
(* C2.  The batch never holds two crossover alerts for the same symbol,    *)
(* timeframe and period, and the key of every crossover alert in the batch *)
(* is in alert_cache.                                                      *)
(***************************************************************************)
C2_AtMostOneAlertPerKey ==
    /\ \A m \in CrossAlerts : \A n \in CrossAlerts :
          (/\ all_alerts[m].symbol = all_alerts[n].symbol
           /\ all_alerts[m].tf = all_alerts[n].tf
           /\ all_alerts[m].p = all_alerts[n].p) => m = n
    /\ \A n \in CrossAlerts :
          Key(all_alerts[n].symbol, all_alerts[n].tf, all_alerts[n].p) \in alert_cache

\* The second row repeats the first row's symbol and timeframe, its window
\* crosses SMA_2 too, and the batch holds the first row's alert alone.
C2_Witness ==
    /\ pc = "loop" /\ i = 3 /\ Len(configs) = 2
    /\ configs[1].symbol = configs[2].symbol
    /\ configs[1].tf = configs[2].tf
    /\ ~df.none /\ Len(df.bars) = 2
    /\ 2 \in PeriodSet
    /\ StrictlyBetween(SmaAtLast(2), PrevBar.Open, PrevBar.Close)
    /\ Cardinality(CrossAlerts) = 1
    /\ \A n \in CrossAlerts :
          /\ all_alerts[n].p = 2
          /\ all_alerts[n].symbol = configs[2].symbol
          /\ all_alerts[n].close # LastBar.Close

(***************************************************************************)
(* C7.  A fetch that does not deliver a frame, because of the provider's   *)
(* status or because the call raised, appends one failure notification,    *)
(* leaves the cache alone, raises nothing and lets the loop go on to the   *)
(* next row.                                                               *)
(***************************************************************************)
C7_FetchFailureIsNonFatal ==
    [][ (pc = "fetch" /\ pc' # "parse") =>
          /\ pc' = "loop"
          /\ i' = i + 1
          /\ exc' = "none"
          /\ alert_cache' = alert_cache
          /\ Len(all_alerts') = Len(all_alerts) + 1
          /\ all_alerts'[Len(all_alerts')].kind = "error"
      ]_vars

(***************************************************************************)
(* C8.  An exception that escapes the row loop is handled in one step:     *)
(* nothing has been handed to the alert helper before, the handler appends *)
(* an error notification to the batch as it stands, hands that batch to    *)
(* the helper once, and re-raises; the row index, the frame and the cache  *)
(* stay as they are, and nothing happens after the re-raise.               *)
(***************************************************************************)
C8_ExceptionReportedThenReraised ==
    [][ /\ pc = "except" =>
              /\ exc # "none" /\ exc' = exc
              /\ sent = <<>>
              /\ Len(all_alerts') = Len(all_alerts) + 1
              /\ SubSeq(all_alerts', 1, Len(all_alerts)) = all_alerts
              /\ all_alerts'[Len(all_alerts')].kind = "error"
              /\ sent' = <<all_alerts'>>
              /\ pc' = "failed"
              /\ i' = i /\ df' = df /\ alert_cache' = alert_cache
        /\ pc = "failed" => FALSE
      ]_vars

\* The second row raised after the first row's crossover alert: the batch
\* handed over holds that alert and the error.
C8_Witness ==
    /\ pc = "failed" /\ i = 2 /\ Len(configs) = 2
    /\ Len(all_alerts) = 2
    /\ all_alerts[1].kind = "cross"
    /\ all_alerts[2].kind = "error"
    /\ sent = <<all_alerts>>

(***************************************************************************)
(* C9.  Nothing is handed to the alert helper while rows are being         *)
(* processed; a run that completes has processed every row, one at a time  *)
(* in order, and has handed the batch to the helper exactly once, whole    *)
(* and in the order of accumulation, or not at all when it is empty.       *)
(***************************************************************************)
C9_Positions ==
    /\ sent # <<>> => pc \in {"done", "failed"}
    /\ Len(sent) <= 1
    /\ pc \in {"fetch", "parse", "add_sma", "detect"} => i \in 1..Len(configs)
    /\ pc = "done" =>
          /\ exc = "none"
          /\ i = Len(configs) + 1
          /\ sent = (IF all_alerts = <<>> THEN <<>> ELSE <<all_alerts>>)

C9_Steps ==
    /\ Len(all_alerts') >= Len(all_alerts)
    /\ SubSeq(all_alerts', 1, Len(all_alerts)) = all_alerts
    /\ i' # i => \/ pc = "configs" /\ i' = 1
                 \/ pc \in {"fetch", "detect"} /\ i' = i + 1 /\ pc' = "loop"
    /\ pc' = "fetch" => pc = "loop"
    /\ pc = "loop" /\ i <= Len(configs) => pc' = "fetch"

\* C9: the positions above hold in every state of a run and every step of a
\* run keeps the batch's order and the rows' order.
C9_BatchSentOnceAfterAllRows == [](C9_Positions) /\ [][C9_Steps]_vars

\* A completed run of two rows that each alerted: one batch of two alerts.
C9_Witness ==
    /\ pc = "done" /\ Len(configs) = 2
    /\ Len(all_alerts) = 2
    /\ all_alerts[1].kind = "cross" /\ all_alerts[2].kind = "cross"
    /\ all_alerts[1].symbol # all_alerts[2].symbol
    /\ sent = <<all_alerts>>

(***************************************************************************)
(* C10, as claimed.  With FYERS_TOKEN, TG_BOT_TOKEN, TG_CHAT_ID or         *)
(* TRADE_CONFIGS missing the script never gets to the row loop.            *)
(***************************************************************************)
BeforeProcessing == {"telegram", "fyers", "configs", "aborted"}

C10_AnyMissingSettingIsFatal ==
    (\/ ~access_token
     \/ ~BOT_TOKEN
     \/ ~CHAT_ID
     \/ configs_str.text \in {"absent", "empty", "blank"})
    => pc \in BeforeProcessing

(***************************************************************************)
(* C10, amended.  With FYERS_TOKEN missing, or TRADE_CONFIGS absent, empty *)
(* or without columns, the script never gets to the row loop: no frame, no *)
(* key, nothing handed over, and it aborts with a ValueError after queuing *)
(* one error.  Missing Telegram credentials only keep the helper from      *)
(* posting.                                                                *)
(***************************************************************************)
C10_MissingTokenOrConfigsIsFatal ==
    /\ (~access_token \/ configs_str.text \in {"absent", "empty", "blank"})
       => /\ pc \in BeforeProcessing
          /\ i = 0 /\ df = None /\ alert_cache = {} /\ sent = <<>>
    /\ pc = "aborted"
       => /\ ~access_token \/ configs_str.text \in {"absent", "empty", "blank"}
          /\ exc = "ValueError"
          /\ Len(all_alerts) = 1 /\ all_alerts[1].kind = "error"
    /\ (~BOT_TOKEN \/ ~CHAT_ID) => posted = <<>>

\* The script aborted for want of FYERS_TOKEN with two rows configured.
C10_Witness ==
    /\ pc = "aborted"
    /\ ~access_token
    /\ configs_str.text = "csv" /\ Len(configs_str.rows) = 2
    /\ exc = "ValueError"

====
